---- MODULE Spec2Model ----
(***************************************************************************)
(* Model of sync_and_push.py (src/run.py): the one-click publishing        *)
(* pipeline of OmBlog.  One run is main() followed by the __main__         *)
(* handler; the file system (the two directories, the helper script, the   *)
(* posts trees, the counter file) and the git repository persist from one  *)
(* run to the next.  Text is modelled as sequences of one-character        *)
(* strings so that int() and str() are computed, not assumed.              *)
(***************************************************************************)
EXTENDS Integers, Sequences, FiniteSets, TLC

\* ---------------------------------------------------------------- bounds
\* longest counter-file text enumerated exhaustively at start
MaxLen == 2
\* number of runs of the script in one behaviour
MaxRuns == 2

\* ------------------------------------------------------------- constants
OBS_POSTS == "OBS_POSTS"
BLOG_ROOT == "BLOG_ROOT"
DEST_POSTS == "DEST_POSTS"
IMAGES_PY == "IMAGES_PY"
COUNTER_FN == "COUNTER_FN"

\* cwd=None of run()
None == "None"
\* a file that does not exist, and a file holding a text
Absent == [exists |-> FALSE, text |-> <<>>]
File(text) == [exists |-> TRUE, text |-> text]

\* exit statuses a child process can return; 0 is success
ReturnCodes == {0, 1, 128}
\* what `git rev-parse --abbrev-ref HEAD` can answer
Branches == {"main", "master"}
\* the files a posts tree can hold
Files == {"a.md", "b.md"}

Digits == <<"0", "1", "2", "3", "4", "5", "6", "7", "8", "9">>
DigitSet == {Digits[i] : i \in 1..10}
Whitespace == {" ", "\n"}
\* characters of the counter texts enumerated at start
Alphabet == {"0", "1", "9", " ", "x"}
\* further counter texts, beyond MaxLen, that int() treats specially
ExtraTexts ==
  { <<"4", "1">>, <<" ", "4", "1", "\n">>, <<"0", "0", "7">>, <<"+", "9", "9">>,
    <<"1", "_", "0">>, <<"1", "_", "_", "0">>, <<"_", "1">>, <<"4", " ", "1">>,
    <<"-", " ", "1">>, <<"\n">>, <<"-">>, <<"-", "1">>, <<"-", "0">>, <<"-", "1", "0">>,
    <<"1", "-">>, <<"-", "x">> }

\* ------------------------------------------------------- text <-> integer
DigitVal(c) == (CHOOSE i \in 1..10 : Digits[i] = c) - 1

RECURSIVE LStrip(_)
LStrip(s) ==
  IF s # <<>> /\ Head(s) \in Whitespace THEN LStrip(Tail(s)) ELSE s

RECURSIVE RStrip(_)
RStrip(s) ==
  IF s # <<>> /\ s[Len(s)] \in Whitespace THEN RStrip(SubSeq(s, 1, Len(s) - 1)) ELSE s

\* str.strip()
Strip(s) == RStrip(LStrip(s))

\* the digits part of an integer literal: digits, single underscores between them
DigitsOk(d) ==
  /\ d # <<>>
  /\ \A i \in 1..Len(d) :
       \/ d[i] \in DigitSet
       \/ /\ d[i] = "_"
          /\ 1 < i /\ i < Len(d)
          /\ d[i - 1] \in DigitSet /\ d[i + 1] \in DigitSet

RECURSIVE DigitsValue(_)
DigitsValue(d) ==
  IF d = <<>> THEN 0
  ELSE IF d[Len(d)] = "_" THEN DigitsValue(SubSeq(d, 1, Len(d) - 1))
  ELSE 10 * DigitsValue(SubSeq(d, 1, Len(d) - 1)) + DigitVal(d[Len(d)])

HasSign(t) == t # <<>> /\ Head(t) \in {"+", "-"}
Unsigned(t) == IF HasSign(t) THEN Tail(t) ELSE t

\* int(text) raises ValueError unless this holds
IntOk(text) == DigitsOk(Unsigned(Strip(text)))

\* int(text) for a text it accepts
IntValue(text) ==
  LET t == Strip(text)
      v == DigitsValue(Unsigned(t))
  IN  IF HasSign(t) /\ Head(t) = "-" THEN 0 - v ELSE v

RECURSIVE NatStr(_)
NatStr(n) ==
  IF n < 10 THEN <<Digits[n + 1]>> ELSE Append(NatStr(n \div 10), Digits[(n % 10) + 1])

\* str(n)
Str(n) == IF n < 0 THEN <<"-">> \o NatStr(0 - n) ELSE NatStr(n)

\* "Post update "
MsgPrefix == <<"P", "o", "s", "t", " ", "u", "p", "d", "a", "t", "e", " ">>

\* ------------------------------------------------------------------ state
VARIABLES
  pc,             \* position of the running process in run.py
  obsIsDir,       \* OBS_POSTS.is_dir()
  blogIsDir,      \* BLOG_ROOT.is_dir()
  imagesExists,   \* IMAGES_PY.exists()
  obsPosts,       \* files under OBS_POSTS
  destPosts,      \* files under DEST_POSTS
  counterFile,    \* COUNTER_FN: Absent or File(text)
  index,          \* COUNTER_FN as staged in the git index by `git add .`
  commits,        \* commits of the local repository, oldest first
  pushes,         \* pushes received by origin, oldest first
  cmdLog,         \* child processes started by this run, with their exit status
  stdout,         \* lines printed by this run
  stderr,         \* what the interpreter reports for an uncaught exception
  exc,            \* the exception propagating out of main(), if any
  exitStatus,     \* exit status of the process, once it has exited
  new,            \* local `new` of next_commit_msg
  commit_msg,     \* local `commit_msg` of main
  branch,         \* local `branch` of main
  runs,           \* number of runs started
  counterAtStart, \* counterFile when this run started
  destAtStart     \* destPosts when this run started

vars ==
  << pc, obsIsDir, blogIsDir, imagesExists, obsPosts, destPosts, counterFile, index,
     commits, pushes, cmdLog, stdout, stderr, exc, exitStatus, new, commit_msg, branch,
     runs, counterAtStart, destAtStart >>

env == << obsIsDir, blogIsDir, imagesExists, obsPosts >>
repo == << index, commits, pushes >>
locals == << new, commit_msg, branch >>
history == << runs, counterAtStart, destAtStart >>

NoExc == [type |-> "none", returncode |-> 0]
CalledProcessError(rc) == [type |-> "CalledProcessError", returncode |-> rc]
SystemExit == [type |-> "SystemExit", returncode |-> 0]
ValueError == [type |-> "ValueError", returncode |-> 0]

RECURSIVE TextsUpTo(_)
TextsUpTo(n) ==
  IF n = 0 THEN {<<>>}
  ELSE LET shorter == TextsUpTo(n - 1)
       IN  shorter \cup {Append(t, c) : t \in shorter, c \in Alphabet}

CounterTexts == TextsUpTo(MaxLen) \cup ExtraTexts

Init ==
  /\ pc = "main"
  /\ obsIsDir \in BOOLEAN
  /\ blogIsDir \in BOOLEAN
  /\ imagesExists \in (IF blogIsDir THEN BOOLEAN ELSE {FALSE})
  /\ obsPosts \in (IF obsIsDir THEN SUBSET Files ELSE {{}})
  /\ destPosts \in (IF blogIsDir THEN SUBSET Files ELSE {{}})
  /\ counterFile \in (IF blogIsDir THEN {Absent} \cup {File(t) : t \in CounterTexts}
                                    ELSE {Absent})
  /\ index = Absent
  /\ commits = <<>>
  /\ pushes = <<>>
  /\ cmdLog = <<>>
  /\ stdout = <<>>
  /\ stderr = <<>>
  /\ exc = NoExc
  /\ exitStatus = -1
  /\ new = 0
  /\ commit_msg = <<>>
  /\ branch = ""
  /\ runs = 1
  /\ counterAtStart = counterFile
  /\ destAtStart = destPosts

\* ---------------------------------------------------------------- helpers
\* check=True left out: a non-zero exit status is not noticed
CheckFails_Unchecked(rc) == FALSE

\* subprocess.run(..., check=True) and check_output raise on this
CheckFails(rc) == rc # 0

\* run(cmd, cwd): echo the command, start it, raise if it fails
run(cmd, arg, cwd, rc, next) ==
  /\ stdout' = Append(stdout, [line |-> "$", cmd |-> cmd, arg |-> arg, code |-> 0])
  /\ cmdLog' = Append(cmdLog, [cmd |-> cmd, arg |-> arg, cwd |-> cwd, rc |-> rc])
  /\ IF CheckFails(rc)
       THEN pc' = "raised" /\ exc' = CalledProcessError(rc)
       ELSE pc' = next /\ exc' = NoExc

\* the counter file is never read: every run starts again from 0
Last_NotRead(file) == 0

\* `last` of next_commit_msg
Last(file) ==
  IF ~file.exists THEN 0
  ELSE IF Strip(file.text) = <<>> THEN 0
  ELSE IntValue(file.text)

\* int() in next_commit_msg raises ValueError
ParseFails(file) == file.exists /\ Strip(file.text) # <<>> /\ ~IntOk(file.text)

\* the increment left out
New_NoIncrement(last) == last

\* `new` of next_commit_msg
New(last) == last + 1

\* the commit message for a number
Message(n) == MsgPrefix \o Str(n)

\* what a failed rsync can leave behind: each file as before or as in the source
Partial(dest, src) == {d \in SUBSET Files : \A f \in Files : (f \in d) = (f \in dest) \/ (f \in d) = (f \in src)}

\* ---------------------------------------------------------------- actions
\* only the first of the two directory checks
PathsMissing_ObsOnly == ~obsIsDir

\* main, lines 44 and 46: either directory is missing
PathsMissing == ~obsIsDir \/ ~blogIsDir

\* main, lines 44-47: the two directory checks
CheckPaths ==
  /\ pc = "main"
  /\ IF PathsMissing
       THEN pc' = "raised" /\ exc' = SystemExit
       ELSE pc' = "rsync" /\ exc' = NoExc
  /\ UNCHANGED << env, destPosts, counterFile, repo, cmdLog, stdout, stderr, exitStatus,
                  locals, history >>

\* main, lines 50-55: mirror OBS_POSTS/ into DEST_POSTS
Rsync ==
  /\ pc = "rsync"
  /\ \E rc \in ReturnCodes :
       /\ run("rsync", <<OBS_POSTS, DEST_POSTS>>, None, rc, "images")
       /\ IF rc = 0 THEN destPosts' = obsPosts
                    ELSE destPosts' \in Partial(destPosts, obsPosts)
  /\ UNCHANGED << env, counterFile, repo, stderr, exitStatus, locals, history >>

\* the existence test left out: the helper is started whether it is there or not
HelperPresent_Always == TRUE

\* main, line 58: IMAGES_PY.exists()
HelperPresent == imagesExists

\* main, lines 58-60: the image helper, when it exists
Images ==
  /\ pc = "images"
  /\ IF HelperPresent
       THEN \E rc \in ReturnCodes : run("python3", <<IMAGES_PY>>, BLOG_ROOT, rc, "hugo")
       ELSE pc' = "hugo" /\ UNCHANGED << cmdLog, stdout, exc >>
  /\ UNCHANGED << env, destPosts, counterFile, repo, stderr, exitStatus, locals, history >>

\* the build started without check=True: its exit status is not looked at
Hugo_Unchecked ==
  /\ pc = "hugo"
  /\ \E rc \in ReturnCodes :
       /\ stdout' = Append(stdout, [line |-> "$", cmd |-> "hugo", arg |-> <<>>, code |-> 0])
       /\ cmdLog' = Append(cmdLog, [cmd |-> "hugo", arg |-> <<>>, cwd |-> BLOG_ROOT, rc |-> rc])
       /\ pc' = "git_add"
       /\ exc' = NoExc
  /\ UNCHANGED << env, destPosts, counterFile, repo, stderr, exitStatus, locals, history >>

\* main, lines 63-64: the local build
Hugo ==
  /\ pc = "hugo"
  /\ \E rc \in ReturnCodes : run("hugo", <<>>, BLOG_ROOT, rc, "git_add")
  /\ UNCHANGED << env, destPosts, counterFile, repo, stderr, exitStatus, locals, history >>

\* main, line 67: git add .
GitAdd ==
  /\ pc = "git_add"
  /\ \E rc \in ReturnCodes :
       /\ run("git add", <<>>, BLOG_ROOT, rc, "next_commit_msg")
       /\ index' = IF rc = 0 THEN counterFile ELSE index
  /\ UNCHANGED << env, destPosts, counterFile, commits, pushes, stderr, exitStatus,
                  locals, history >>

\* a ValueError of int() swallowed, the count starting again from 0
NextCommitMsg_Recover ==
  /\ pc = "next_commit_msg"
  /\ new' = New(IF ParseFails(counterFile) THEN 0 ELSE Last(counterFile))
  /\ counterFile' = File(Str(new'))
  /\ commit_msg' = Message(new')
  /\ pc' = "git_commit"
  /\ exc' = NoExc
  /\ UNCHANGED << env, destPosts, repo, cmdLog, stdout, stderr, exitStatus, branch,
                  history >>

\* main, line 68, and next_commit_msg, lines 33-40
NextCommitMsg ==
  /\ pc = "next_commit_msg"
  /\ IF ParseFails(counterFile)
       THEN /\ pc' = "raised"
            /\ exc' = ValueError
            /\ UNCHANGED << counterFile, new, commit_msg >>
       ELSE /\ new' = New(Last(counterFile))
            /\ counterFile' = File(Str(new'))
            /\ commit_msg' = Message(new')
            /\ pc' = "git_commit"
            /\ exc' = NoExc
  /\ UNCHANGED << env, destPosts, repo, cmdLog, stdout, stderr, exitStatus, branch,
                  history >>

\* main, line 69: git commit -m commit_msg
GitCommit ==
  /\ pc = "git_commit"
  /\ \E rc \in ReturnCodes :
       /\ run("git commit", commit_msg, BLOG_ROOT, rc, "rev_parse")
       /\ commits' = IF rc = 0
                       THEN Append(commits, [run |-> runs, msg |-> commit_msg, counter |-> index])
                       ELSE commits
  /\ UNCHANGED << env, destPosts, counterFile, index, pushes, stderr, exitStatus,
                  locals, history >>

\* main, lines 72-75: check_output of git rev-parse --abbrev-ref HEAD
RevParse ==
  /\ pc = "rev_parse"
  /\ \E rc \in ReturnCodes :
       /\ cmdLog' = Append(cmdLog, [cmd |-> "git rev-parse", arg |-> <<>>,
                                    cwd |-> BLOG_ROOT, rc |-> rc])
       /\ IF CheckFails(rc)
            THEN pc' = "raised" /\ exc' = CalledProcessError(rc) /\ UNCHANGED branch
            ELSE pc' = "git_push" /\ exc' = NoExc /\ branch' \in Branches
  /\ UNCHANGED << env, destPosts, counterFile, repo, stdout, stderr, exitStatus, new,
                  commit_msg, history >>

\* main, line 76: git push origin branch
GitPush ==
  /\ pc = "git_push"
  /\ \E rc \in ReturnCodes :
       /\ run("git push", <<"origin", branch>>, BLOG_ROOT, rc, "done")
       /\ pushes' = IF rc = 0
                      THEN Append(pushes, [run |-> runs, branch |-> branch,
                                           head |-> Len(commits)])
                      ELSE pushes
  /\ UNCHANGED << env, destPosts, counterFile, index, commits, stderr, exitStatus,
                  locals, history >>

\* main, line 78, then the normal end of the process
Done ==
  /\ pc = "done"
  /\ stdout' = Append(stdout, [line |-> "Done", cmd |-> branch, arg |-> commit_msg, code |-> 0])
  /\ exitStatus' = 0
  /\ pc' = "exited"
  /\ UNCHANGED << env, destPosts, counterFile, repo, cmdLog, stderr, exc, locals, history >>

\* a handler that puts the counter file back as it was when the run started
Handler_Rollback ==
  /\ pc = "raised"
  /\ exc.type = "CalledProcessError"
  /\ stdout' = Append(stdout, [line |-> "Command failed", cmd |-> "", arg |-> <<>>,
                               code |-> exc.returncode])
  /\ counterFile' = counterAtStart
  /\ exitStatus' = 0
  /\ pc' = "exited"
  /\ UNCHANGED << env, destPosts, repo, cmdLog, stderr, exc, locals, history >>

\* __main__, lines 83-84: the handler of CalledProcessError; the process then ends normally
Handler ==
  /\ pc = "raised"
  /\ exc.type = "CalledProcessError"
  /\ stdout' = Append(stdout, [line |-> "Command failed", cmd |-> "", arg |-> <<>>,
                               code |-> exc.returncode])
  /\ exitStatus' = 0
  /\ pc' = "exited"
  /\ UNCHANGED << env, destPosts, counterFile, repo, cmdLog, stderr, exc, locals, history >>

\* __main__, lines 81-83: any other exception leaves the try statement uncaught
Uncaught ==
  /\ pc = "raised"
  /\ exc.type # "CalledProcessError"
  /\ stderr' = Append(stderr, exc.type)
  /\ exitStatus' = 1
  /\ pc' = "exited"
  /\ UNCHANGED << env, destPosts, counterFile, repo, cmdLog, stdout, exc, locals, history >>

\* the user starts the script again after the previous process has exited
NewRun ==
  /\ pc = "exited"
  /\ runs < MaxRuns
  /\ runs' = runs + 1
  /\ pc' = "main"
  /\ cmdLog' = <<>>
  /\ stdout' = <<>>
  /\ stderr' = <<>>
  /\ exc' = NoExc
  /\ exitStatus' = -1
  /\ new' = 0
  /\ commit_msg' = <<>>
  /\ branch' = ""
  /\ counterAtStart' = counterFile
  /\ destAtStart' = destPosts
  /\ UNCHANGED << env, destPosts, counterFile, repo >>

Next ==
  \/ CheckPaths
  \/ Rsync
  \/ Images
  \/ Hugo
  \/ GitAdd
  \/ NextCommitMsg
  \/ GitCommit
  \/ RevParse
  \/ GitPush
  \/ Done
  \/ Handler
  \/ Uncaught
  \/ NewRun

Spec == Init /\ [][Next]_vars

\* ------------------------------------------------------------- vocabulary
Invoked(c) == \E i \in 1..Len(cmdLog) : cmdLog[i].cmd = c
Succeeded(c) == \E i \in 1..Len(cmdLog) : cmdLog[i].cmd = c /\ cmdLog[i].rc = 0
Failed(c) == \E i \in 1..Len(cmdLog) : cmdLog[i].cmd = c /\ cmdLog[i].rc # 0
AnyFailed == \E i \in 1..Len(cmdLog) : cmdLog[i].rc # 0
Printed(l) == \E i \in 1..Len(stdout) : stdout[i].line = l
CommittedThisRun == \E i \in 1..Len(commits) : commits[i].run = runs
PushedThisRun == \E i \in 1..Len(pushes) : pushes[i].run = runs
\* the number a commit message carries
CommitNum(c) == IntValue(SubSeq(c.msg, Len(MsgPrefix) + 1, Len(c.msg)))
\* the run is past line 68
PastCounterStep == pc \in {"git_commit", "rev_parse", "git_push", "done"} \/ Invoked("git commit")

\* ----------------------------------------------------------------- claims
\* C1: fail-fast. In every run, a command that exits non-zero is the last command
\* the run starts (nothing later is invoked, the command is not started again) and
\* the success line is not printed.
C1_FailFast ==
  \A i \in 1..Len(cmdLog) :
    cmdLog[i].rc # 0 => i = Len(cmdLog) /\ ~Printed("Done") /\ pc \in {"raised", "exited"}

C1_Witness ==
  /\ pc = "exited"
  /\ Len(cmdLog) = 3
  /\ cmdLog[3].cmd = "hugo"
  /\ cmdLog[3].rc = 128

\* C2: the process exits with a non-zero status whenever a command failed or a
\* directory check failed, and a failed command's exit code is on the failure line.
C2_NonZeroExit ==
  pc = "exited" =>
    /\ (AnyFailed \/ ~obsIsDir \/ ~blogIsDir) => exitStatus # 0
    /\ \A i \in 1..Len(cmdLog) :
         cmdLog[i].rc # 0 =>
           \E j \in 1..Len(stdout) :
             stdout[j].line = "Command failed" /\ stdout[j].code = cmdLog[i].rc

\* a text that is a decimal integer: an optional minus sign, then digits
IsDecimal(t) ==
  LET d == IF t # <<>> /\ Head(t) = "-" THEN Tail(t) ELSE t
  IN  d # <<>> /\ \A i \in 1..Len(d) : d[i] \in DigitSet

RECURSIVE DecimalFrom(_, _)
DecimalFrom(acc, d) ==
  IF d = <<>> THEN acc ELSE DecimalFrom(10 * acc + DigitVal(Head(d)), Tail(d))

\* the integer a decimal text denotes
DecimalValue(t) ==
  IF Head(t) = "-" THEN 0 - DecimalFrom(0, Tail(t)) ELSE DecimalFrom(0, t)

\* the file is absent, empty, or holds a decimal integer (surrounding blanks aside)
HoldsInteger(file) ==
  ~file.exists \/ Strip(file.text) = <<>> \/ IsDecimal(Strip(file.text))

HeldInteger(file) ==
  IF ~file.exists \/ Strip(file.text) = <<>> THEN 0 ELSE DecimalValue(Strip(file.text))

\* C3: a run that executes the commit-counter step with the counter file absent,
\* empty, or holding the decimal integer n (absent and empty are n = 0) leaves the
\* file holding exactly the decimal text of n+1 and makes the commit message
\* "Post update <n+1>"; absent gives "1" and "Post update 1", "41" gives "42" and
\* "Post update 42".
C3_CounterIncrement ==
  (PastCounterStep /\ HoldsInteger(counterAtStart)) =>
    /\ counterFile = File(Str(HeldInteger(counterAtStart) + 1))
    /\ commit_msg = Message(HeldInteger(counterAtStart) + 1)
    /\ IsDecimal(counterFile.text)
    /\ DecimalValue(counterFile.text) = HeldInteger(counterAtStart) + 1
    /\ ~counterAtStart.exists =>
         /\ counterFile = File(<<"1">>)
         /\ commit_msg = MsgPrefix \o <<"1">>
    /\ counterAtStart = File(<<"4", "1">>) =>
         /\ counterFile = File(<<"4", "2">>)
         /\ commit_msg = MsgPrefix \o <<"4", "2">>

C3_Witness ==
  /\ PastCounterStep
  /\ counterAtStart = File(<<"4", "1">>)
  /\ counterFile = File(<<"4", "2">>)
  /\ commit_msg = MsgPrefix \o <<"4", "2">>

\* C4: when the notes directory or the site root is not a directory at start, the
\* run ends before any command is started and before anything is changed: no
\* mirror, helper, build, stage, commit or push, and the counter file as it was.
C4_PreconditionAbort ==
  (~obsIsDir \/ ~blogIsDir) =>
    /\ cmdLog = <<>>
    /\ counterFile = counterAtStart
    /\ destPosts = destAtStart
    /\ index = Absent
    /\ commits = <<>> /\ pushes = <<>>
    /\ pc \in {"main", "raised", "exited"}
    /\ pc = "exited" => exitStatus # 0

C4_Witness ==
  /\ ~obsIsDir
  /\ blogIsDir
  /\ counterFile = File(<<"9">>)
  /\ pc = "exited"
  /\ runs = 2

\* C5: when the build (hugo) exits non-zero, the run makes no commit and no push,
\* and the posts tree stays as the mirror step left it.
C5_BuildFailure ==
  Failed("hugo") =>
    /\ ~Invoked("git add") /\ ~Invoked("git commit") /\ ~Invoked("git push")
    /\ ~CommittedThisRun /\ ~PushedThisRun
    /\ destPosts = obsPosts

C5_Witness ==
  /\ Failed("hugo")
  /\ pc = "exited"
  /\ destPosts # destAtStart
  /\ destPosts = obsPosts

\* C6: without the helper script, the helper is never started, nothing is raised
\* for it, and the command after a successful mirror is the build; with the helper
\* script, it is started exactly once, between mirror and build, in the site root.
C6_Helper ==
  /\ ~imagesExists =>
       /\ ~Invoked("python3")
       /\ \A i \in 1..Len(cmdLog) :
            (cmdLog[i].cmd = "rsync" /\ cmdLog[i].rc = 0 /\ i < Len(cmdLog)) =>
              cmdLog[i + 1].cmd = "hugo"
       /\ (Len(cmdLog) = 1 /\ cmdLog[1].rc = 0) => (pc \in {"images", "hugo"} /\ exc = NoExc)
  /\ imagesExists =>
       /\ Cardinality({i \in 1..Len(cmdLog) : cmdLog[i].cmd = "python3"}) <= 1
       /\ \A i \in 1..Len(cmdLog) :
            /\ cmdLog[i].cmd = "python3" =>
                 /\ i = 2
                 /\ cmdLog[1].cmd = "rsync" /\ cmdLog[1].rc = 0
                 /\ cmdLog[i].cwd = BLOG_ROOT
                 /\ cmdLog[i].arg = <<IMAGES_PY>>
            /\ cmdLog[i].cmd = "hugo" =>
                 /\ i = 3
                 /\ cmdLog[1].cmd = "rsync"
                 /\ cmdLog[2].cmd = "python3" /\ cmdLog[2].rc = 0

C6_Witness ==
  /\ ~imagesExists
  /\ Len(cmdLog) >= 2
  /\ cmdLog[1].cmd = "rsync"
  /\ cmdLog[2].cmd = "hugo"

\* C7: the commit-counter step (read, increment, write) is complete before the
\* stage-all command is started, so that `git add .` sees the updated counter file.
C7_CounterBeforeStage ==
  Invoked("git add") => (counterFile # counterAtStart /\ PastCounterStep)

\* a step does not lower the value of a counter file that holds an integer
CounterNeverDecreases ==
  HoldsInteger(counterFile) =>
    /\ HoldsInteger(counterFile')
    /\ HeldInteger(counterFile') >= HeldInteger(counterFile)

\* a commit made by a step carries a number above those of all earlier commits
NewCommitIsGreater ==
  Len(commits') > Len(commits) =>
    \A i \in 1..Len(commits) : CommitNum(commits[i]) < CommitNum(commits'[Len(commits')])

\* a push made by a step delivers a head commit numbered above all earlier pushes
NewPushIsGreater ==
  Len(pushes') > Len(pushes) =>
    LET p == pushes'[Len(pushes')]
    IN  /\ p.head \in 1..Len(commits')
        /\ \A i \in 1..Len(pushes) :
             CommitNum(commits'[pushes[i].head]) < CommitNum(commits'[p.head])

\* C8: over any sequence of runs, successful or failed, that starts from an
\* absent, empty or numeric counter file, no step lowers the counter file's value,
\* every new commit carries a number greater than the number of every earlier
\* commit, and every new push delivers a head commit whose number is greater than
\* that of every earlier push.
C8_Monotonic ==
  [][CounterNeverDecreases /\ NewCommitIsGreater /\ NewPushIsGreater]_vars

C8_Witness ==
  /\ Len(commits) = 2
  /\ Len(pushes) = 2
  /\ CommitNum(commits[1]) = 10
  /\ CommitNum(commits[2]) = 11

\* C9: when the counter file exists and holds text that int() rejects at the
\* commit-counter step, the run ends with an uncaught error: the counter file is
\* left as it was and the run makes no commit, no branch query and no push.
C9_ParseFailure ==
  (counterAtStart.exists /\ Strip(counterAtStart.text) # <<>> /\ ~IntOk(counterAtStart.text)) =>
    /\ counterFile = counterAtStart
    /\ ~Invoked("git commit") /\ ~Invoked("git rev-parse") /\ ~Invoked("git push")
    /\ ~CommittedThisRun /\ ~PushedThisRun
    /\ ~Printed("Done")
    /\ pc \notin {"git_commit", "rev_parse", "git_push", "done"}
    /\ (pc = "exited" /\ Succeeded("git add")) =>
         /\ exitStatus # 0
         /\ stderr = <<"ValueError">>

C9_Witness ==
  /\ counterAtStart = File(<<"1", "x">>)
  /\ Succeeded("git add")
  /\ pc = "exited"
  /\ stderr = <<"ValueError">>

\* C10: a run changes the counter file exactly when it gets past a successful
\* stage-all command with a counter file that is absent, empty or parseable.  A run
\* that stops earlier leaves the file as it was; a run whose commit, branch query
\* or push then fails leaves the counter one higher, with nothing pushed by it.
C10_CounterFrame ==
  /\ (counterFile # counterAtStart) <=>
       /\ Succeeded("git add")
       /\ pc # "next_commit_msg"
       /\ ~(counterAtStart.exists /\ Strip(counterAtStart.text) # <<>>
              /\ ~IntOk(counterAtStart.text))
  /\ (counterFile # counterAtStart) =>
       /\ IsDecimal(counterFile.text)
       /\ DecimalValue(counterFile.text) = Last(counterAtStart) + 1
  /\ (Failed("rsync") \/ Failed("python3") \/ Failed("hugo") \/ Failed("git add")
        \/ ~obsIsDir \/ ~blogIsDir) =>
       counterFile = counterAtStart
  /\ (Failed("git commit") \/ Failed("git rev-parse") \/ Failed("git push")) =>
       /\ counterFile # counterAtStart
       /\ ~PushedThisRun

C10_Witness ==
  /\ pc = "exited"
  /\ Failed("git push")
  /\ counterAtStart = File(<<"9">>)
  /\ counterFile = File(<<"1", "0">>)
  /\ ~PushedThisRun

====
